---- MODULE Spec2Model ----
(***************************************************************************)
(* A model of the service-provider booking marketplace backend: the        *)
(* booking status operations (controller functions, command objects and    *)
(* the admin route), the booking conflict check, the observer fan-out,     *)
(* the Config / SingletonDB singletons, the record stores and the          *)
(* business_owner_required route guard.                                    *)
(***************************************************************************)
EXTENDS Integers, Sequences, FiniteSets, TLC

(***************************************************************************)
(* Bounds of the model.                                                    *)
(***************************************************************************)
MaxBookings == 1
MaxConflictBookings == 3
MaxTime == 1

(***************************************************************************)
(* Fixed data: users, businesses with their owners, services.              *)
(***************************************************************************)
UserIds == {"owner1", "owner2", "cust"}
CustomerIds == {"cust"}
BookingIds == 1..MaxBookings
ConflictBookingIds == 1..MaxConflictBookings
Times == 0..MaxTime

\* models/booking.py: Booking.BOOKING_STATUSES
BOOKING_STATUSES == {"requested", "accepted", "rejected", "cancelled", "completed"}

\* the key update_status stamps: f"{new_status}_at"
timestamp_key(status) == status

\* statuses a request can ask for: the five of the model and one unknown
RequestedStatuses == BOOKING_STATUSES \cup {"bogus"}

\* the booking ids a request can name: the stored ones and one more
RequestedBookingIds == 1..(MaxBookings + 1)

VARIABLES
    bookings,      \* the bookings collection, in insertion order; booking_id = index
    businesses,    \* the businesses collection: business_id -> document
    services,      \* the services collection: service_id -> document
    users,         \* the users collection: user_id -> document
    categories,    \* the categories collection (CategoryModel): the stored names
    cmd,           \* the command object at hand, or NoCommand
    observers,     \* booking_notifier._observers
    last,          \* the outcome of the last operation
    Config,        \* the class attributes of Config
    SingletonDB,   \* the class attributes of SingletonDB
    thr,           \* per thread: its call stack and its local variables
    env_ok,        \* whether the environment holds a usable SECRET_KEY
    connects,      \* how many times mongoengine.connect has returned a connection
    seen,          \* the instances callers were handed, per class
    current_user,  \* flask_login's current_user of the request at hand
    response,      \* the response to the last guarded request
    handler_runs,  \* how many times the guarded route handler has run
    queue,         \* BookingCommandQueue.queue: the items waiting
    history,       \* BookingCommandQueue.history
    running,       \* the item execute_next has popped and is executing
    loop,          \* the locals of an execute_all in progress
    session,       \* the flask session of the client
    boot_id,       \* app.config['APP_BOOT_ID'] of the running server
    accounts       \* the users collection as the auth routes see it

recordVars == <<businesses, services, users, categories>>
singletonVars == <<Config, SingletonDB, thr, env_ok, connects, seen>>
guardVars == <<current_user, response, handler_runs>>
queueVars == <<queue, history, running, loop>>
sessionVars == <<session, boot_id, accounts>>

\* a session holding no key
NoSession == [k \in {} |-> "None"]

vars == <<bookings, cmd, observers, last, recordVars, singletonVars, guardVars,
          queueVars, sessionVars>>

(***************************************************************************)
(* Documents.                                                              *)
(***************************************************************************)
\* a command that has not loaded or created a booking: self.booking = None
NoDoc == [booking_id |-> 0, status |-> "none", timestamps |-> {}]

\* Booking(...) as CreateBookingCommand.execute and create_booking build it
NewBooking(service_id, customer_id, booking_time) ==
    [business_id      |-> services[service_id].business_id,
     service_id       |-> service_id,
     customer_id      |-> customer_id,
     booking_time     |-> booking_time,
     duration_minutes |-> services[service_id].duration_minutes,
     status           |-> "requested",
     timestamps       |-> {timestamp_key("requested")}]

\* Booking.update_status on a document whose new_status is one of
\* BOOKING_STATUSES: the status is set and its timestamp key stamped
update_status(doc, new_status) ==
    [doc EXCEPT !.status = new_status,
                !.timestamps = @ \cup {timestamp_key(new_status)}]

\* the in-memory copy a command keeps of a stored booking
CopyOf(b, doc) ==
    [booking_id |-> b, status |-> doc.status, timestamps |-> doc.timestamps]

(***************************************************************************)
(* The outcome of an operation.                                            *)
(***************************************************************************)
\* what the caller of the last operation saw (its return, the class of the
\* exception raised, with the message where two ValueErrors of one operation
\* must be told apart, or a flashed refusal) and the update calls notify made
Outcome(result, calls) == [result |-> result, calls |-> calls]

(***************************************************************************)
(* The observer fan-out.                                                   *)
(***************************************************************************)
DefaultObservers == <<"EmailNotifier", "SMSNotifier", "BusinessNotifier">>
ObserverPool == {"EmailNotifier", "SMSNotifier", "BusinessNotifier", "FaultyObserver"}

\* whether an observer's update raises: the three concrete notifiers catch
\* their own exceptions, an observer registered by register_observer may not
UpdateRaises(o) == o = "FaultyObserver"

RECURSIVE NotifyFromUncaught(_, _, _)
\* the loop without its try/except: the first raising update ends notify
NotifyFromUncaught(obs, i, calls) ==
    IF i > Len(obs) THEN [calls |-> calls, raised |-> FALSE]
    ELSE IF UpdateRaises(obs[i])
         THEN [calls |-> Append(calls, obs[i]), raised |-> TRUE]
         ELSE NotifyFromUncaught(obs, i + 1, Append(calls, obs[i]))

RECURSIVE NotifyFrom(_, _, _)
\* the loop of BookingNotificationSubject.notify from position i on; calls
\* is the sequence of update calls made so far
NotifyFrom(obs, i, calls) ==
    IF i > Len(obs) THEN [calls |-> calls, raised |-> FALSE]
    ELSE IF UpdateRaises(obs[i])
         THEN \* except Exception: logger.error(...), and the loop goes on
              NotifyFrom(obs, i + 1, Append(calls, obs[i]))
         ELSE NotifyFrom(obs, i + 1, Append(calls, obs[i]))

\* BookingNotificationSubject.attach: an observer already in the list is
\* not added again
attach(observer) ==
    /\ observers' = IF \E i \in 1..Len(observers) : observers[i] = observer
                    THEN observers
                    ELSE Append(observers, observer)
    /\ last' = Outcome("ok", <<>>)
    /\ UNCHANGED <<bookings, recordVars, singletonVars, guardVars, queueVars, sessionVars, cmd>>

\* BookingNotificationSubject.detach: list.remove, its ValueError caught
detach(observer) ==
    /\ observers' = SelectSeq(observers, LAMBDA o : o # observer)
    /\ last' = Outcome("ok", <<>>)
    /\ UNCHANGED <<bookings, recordVars, singletonVars, guardVars, queueVars, sessionVars, cmd>>

\* notify_booking_status_change(booking, status) on the module's subject
notify(obs) == NotifyFrom(obs, 1, <<>>)

(***************************************************************************)
(* Notification of a stored change.                                        *)
(***************************************************************************)
\* the outcome of a step that stored a change and then notified: an
\* exception leaving notify would leave the operation
Notified ==
    LET n == notify(observers) IN
    Outcome(IF n.raised THEN "Exception" ELSE "ok", n.calls)

(***************************************************************************)
(* The conflict check of create_booking and CreateBookingCommand.execute.  *)
(***************************************************************************)
\* Booking.objects(business_id=..., booking_time__lt=end_time,
\*                 status__in=['requested', 'accepted'])
ConflictQuery(business_id, end_time) ==
    {i \in 1..Len(bookings) :
        /\ bookings[i].business_id = business_id
        /\ bookings[i].booking_time < end_time
        /\ bookings[i].status \in {"requested", "accepted"}}

\* .first() of an unordered query: any one of the matching documents, or
\* None (0) when there is none
first(matches) == IF matches = {} THEN {0} ELSE matches

\* if conflict: conflict_end = ...; if conflict_end > booking_time
IsConflict(conflict, booking_time) ==
    /\ conflict # 0
    /\ bookings[conflict].booking_time + bookings[conflict].duration_minutes
          > booking_time

(***************************************************************************)
(* controllers/booking_controller.py                                       *)
(***************************************************************************)
\* the store of a booking, shared by create_booking and
\* CreateBookingCommand.execute: the checks after the service was found
CreateChecked(customer_id, service_id, booking_time) ==
    LET service  == services[service_id]
        end_time == booking_time + service.duration_minutes
    IN  IF ~service.is_active
        THEN /\ last' = Outcome("ValueError", <<>>)
             /\ UNCHANGED bookings
        ELSE \E conflict \in first(ConflictQuery(service.business_id, end_time)) :
                IF IsConflict(conflict, booking_time)
                THEN /\ last' = Outcome("ValueError: Booking time conflict", <<>>)
                     /\ UNCHANGED bookings
                ELSE /\ bookings' = Append(bookings,
                                       NewBooking(service_id, customer_id, booking_time))
                     /\ last' = Notified

create_booking(customer_id, service_id, booking_time) ==
    /\ IF service_id \notin DOMAIN services
       THEN /\ last' = Outcome("ValueError", <<>>)
            /\ UNCHANGED bookings
       ELSE CreateChecked(customer_id, service_id, booking_time)
    /\ UNCHANGED <<recordVars, singletonVars, guardVars, queueVars, sessionVars, cmd, observers>>

\* a transition table that also lets a requested booking be completed
valid_transitions_lax(current_status) ==
    CASE current_status = "requested" -> {"accepted", "rejected", "cancelled", "completed"}
      [] current_status = "accepted"  -> {"completed", "cancelled"}
      [] OTHER -> {}

\* valid_transitions of update_booking_status
valid_transitions(current_status) ==
    CASE current_status = "requested" -> {"accepted", "rejected", "cancelled"}
      [] current_status = "accepted"  -> {"completed", "cancelled"}
      [] OTHER -> {}

update_booking_status(booking_id, new_status, actor_id) ==
    /\ IF booking_id > Len(bookings)
       THEN /\ last' = Outcome("ValueError", <<>>)
            /\ UNCHANGED bookings
       ELSE IF new_status \notin valid_transitions(bookings[booking_id].status)
       THEN /\ last' = Outcome("ValueError", <<>>)
            /\ UNCHANGED bookings
       ELSE \* the authorization block is a bare pass: the actor decides nothing
            /\ bookings' = [bookings EXCEPT ![booking_id] = update_status(@, new_status)]
            /\ last' = Notified
    /\ UNCHANGED <<recordVars, singletonVars, guardVars, queueVars, sessionVars, cmd, observers>>

cancel_booking(booking_id, user_id) ==
    /\ IF booking_id > Len(bookings)
       THEN /\ last' = Outcome("ValueError", <<>>)
            /\ UNCHANGED bookings
       ELSE IF bookings[booking_id].status \notin {"requested", "accepted"}
       THEN /\ last' = Outcome("ValueError", <<>>)
            /\ UNCHANGED bookings
       ELSE \* if booking.customer_id != user_id: pass
            /\ bookings' = [bookings EXCEPT ![booking_id] = update_status(@, "cancelled")]
            /\ last' = Notified
    /\ UNCHANGED <<recordVars, singletonVars, guardVars, queueVars, sessionVars, cmd, observers>>

(***************************************************************************)
(* views/admin.py: the update-status route and models/booking.py           *)
(***************************************************************************)
admin_allowed_any(new_status) == TRUE

\* new_status in ['completed', 'cancelled']
admin_allowed(new_status) == new_status \in {"completed", "cancelled"}

admin_update_booking_status(booking_id, new_status) ==
    /\ IF booking_id > Len(bookings)
       THEN /\ last' = Outcome("flash", <<>>)
            /\ UNCHANGED bookings
       ELSE IF ~admin_allowed(new_status)
       THEN /\ last' = Outcome("flash", <<>>)
            /\ UNCHANGED bookings
       ELSE /\ bookings' = [bookings EXCEPT ![booking_id] = update_status(@, new_status)]
            /\ last' = Outcome("ok", <<>>)
    /\ UNCHANGED <<recordVars, singletonVars, guardVars, queueVars, sessionVars, cmd, observers>>

(***************************************************************************)
(* patterns/command_booking.py: the command objects.  A command keeps the  *)
(* booking document it loaded or created (self.booking) and, for a cancel, *)
(* previous_status.  self.error and self.timestamp are only logged.  The   *)
(* model holds one command object at a time, the way the views build one,  *)
(* use it and let it go.                                                   *)
(***************************************************************************)
CommandKinds == {"Create", "Cancel", "Accept", "Reject", "Complete"}

\* BookingCommand.__init__ and the constructors of the five commands
Command(kind, booking_id, user_id, service_id, booking_time) ==
    [kind |-> kind, booking_id |-> booking_id, user_id |-> user_id,
     service_id |-> service_id, booking_time |-> booking_time,
     booking |-> NoDoc, previous_status |-> "None", executed |-> FALSE]

NoCommand == Command("None", 0, "none", "none", 0)

NewCommand(kind, booking_id, user_id, service_id, booking_time) ==
    /\ cmd = NoCommand
    /\ cmd' = Command(kind, booking_id, user_id, service_id, booking_time)
    /\ last' = Outcome("ok", <<>>)
    /\ UNCHANGED <<bookings, recordVars, singletonVars, guardVars, queueVars, sessionVars, observers>>

\* the command object is no longer referenced
DropCommand ==
    /\ cmd # NoCommand
    /\ cmd' = NoCommand
    /\ last' = Outcome("ok", <<>>)
    /\ UNCHANGED <<bookings, recordVars, singletonVars, guardVars, queueVars, sessionVars, observers>>

\* log_execution: executed is set on success and on failure alike
Logged(c) == [c EXCEPT !.executed = TRUE]

CreateBookingCommand_execute ==
    /\ cmd.kind = "Create"
    /\ IF cmd.service_id \notin DOMAIN services
       THEN /\ last' = Outcome("DoesNotExist", <<>>)
            /\ UNCHANGED bookings
       ELSE CreateChecked(cmd.user_id, cmd.service_id, cmd.booking_time)
    /\ cmd' = IF bookings' # bookings
              THEN Logged([cmd EXCEPT !.booking =
                              CopyOf(Len(bookings'), bookings'[Len(bookings')])])
              ELSE Logged(cmd)
    /\ UNCHANGED <<recordVars, singletonVars, guardVars, queueVars, sessionVars, observers>>

\* an ownership test that lets everyone through
not_owner_skipped(business, user_id) == FALSE

\* if business.owner_id != self.business_owner_id
not_owner(business, user_id) == business.owner_id # user_id

\* AcceptBookingCommand.execute and RejectBookingCommand.execute: the booking
\* and then its business are loaded, the owner is compared, then the status
OwnerMove(from, to) ==
    LET b == cmd.booking_id
    IN  IF b > Len(bookings)
        THEN /\ last' = Outcome("DoesNotExist", <<>>)
             /\ cmd' = Logged(cmd)
             /\ UNCHANGED bookings
        ELSE LET doc    == bookings[b]
                 loaded == [cmd EXCEPT !.booking = CopyOf(b, doc)]
             IN  IF doc.business_id \notin DOMAIN businesses
                 THEN /\ last' = Outcome("DoesNotExist", <<>>)
                      /\ cmd' = Logged(loaded)
                      /\ UNCHANGED bookings
                 ELSE IF not_owner(businesses[doc.business_id], cmd.user_id)
                 THEN /\ last' = Outcome("ValueError: Unauthorized", <<>>)
                      /\ cmd' = Logged(loaded)
                      /\ UNCHANGED bookings
                 ELSE IF doc.status # from
                 THEN /\ last' = Outcome("ValueError", <<>>)
                      /\ cmd' = Logged(loaded)
                      /\ UNCHANGED bookings
                 ELSE /\ bookings' = [bookings EXCEPT ![b] = update_status(@, to)]
                      /\ last' = Notified
                      /\ cmd' = Logged([loaded EXCEPT !.booking =
                                          CopyOf(b, update_status(doc, to))])

AcceptBookingCommand_execute ==
    /\ cmd.kind = "Accept"
    /\ OwnerMove("requested", "accepted")
    /\ UNCHANGED <<recordVars, singletonVars, guardVars, queueVars, sessionVars, observers>>

RejectBookingCommand_execute ==
    /\ cmd.kind = "Reject"
    /\ OwnerMove("requested", "rejected")
    /\ UNCHANGED <<recordVars, singletonVars, guardVars, queueVars, sessionVars, observers>>

CancelBookingCommand_execute ==
    LET b == cmd.booking_id
    IN  /\ cmd.kind = "Cancel"
        /\ IF b > Len(bookings)
           THEN /\ last' = Outcome("DoesNotExist", <<>>)
                /\ cmd' = Logged(cmd)
                /\ UNCHANGED bookings
           ELSE LET doc    == bookings[b]
                    loaded == [cmd EXCEPT !.booking = CopyOf(b, doc),
                                          !.previous_status = doc.status]
                IN  IF doc.status \notin {"requested", "accepted"}
                    THEN /\ last' = Outcome("ValueError", <<>>)
                         /\ cmd' = Logged(loaded)
                         /\ UNCHANGED bookings
                    ELSE \* self.user_id is not consulted
                         /\ bookings' = [bookings EXCEPT ![b] =
                                           update_status(@, "cancelled")]
                         /\ last' = Notified
                         /\ cmd' = Logged([loaded EXCEPT !.booking =
                                             CopyOf(b, update_status(doc, "cancelled"))])
        /\ UNCHANGED <<recordVars, singletonVars, guardVars, queueVars, sessionVars, observers>>

CompleteBookingCommand_execute ==
    LET b == cmd.booking_id
    IN  /\ cmd.kind = "Complete"
        /\ IF b > Len(bookings)
           THEN /\ last' = Outcome("DoesNotExist", <<>>)
                /\ cmd' = Logged(cmd)
                /\ UNCHANGED bookings
           ELSE LET doc    == bookings[b]
                    loaded == [cmd EXCEPT !.booking = CopyOf(b, doc)]
                IN  IF doc.status # "accepted"
                    THEN /\ last' = Outcome("ValueError", <<>>)
                         /\ cmd' = Logged(loaded)
                         /\ UNCHANGED bookings
                    ELSE \* self.business_owner_id is not consulted
                         /\ bookings' = [bookings EXCEPT ![b] =
                                           update_status(@, "completed")]
                         /\ last' = Notified
                         /\ cmd' = Logged([loaded EXCEPT !.booking =
                                             CopyOf(b, update_status(doc, "completed"))])
        /\ UNCHANGED <<recordVars, singletonVars, guardVars, queueVars, sessionVars, observers>>

(***************************************************************************)
(* undo.  The command works on the document it kept, which may be stale,   *)
(* and saves it: save() of a loaded document writes the fields that were   *)
(* changed on it (a status assigned a different value, timestamps after a  *)
(* pop as a whole, after an item assignment that one key).                 *)
(***************************************************************************)
UndoRaises ==
    /\ last' = Outcome("ValueError", <<>>)
    /\ UNCHANGED <<bookings, cmd>>

\* self.booking.status = status; self.booking.timestamps.pop(key, None);
\* self.booking.save()
RevertAndSave(status, key) ==
    LET b    == cmd.booking.booking_id
        copy == [cmd.booking EXCEPT !.status = status, !.timestamps = @ \ {key}]
    IN  /\ cmd' = [cmd EXCEPT !.booking = copy]
        /\ bookings' = [bookings EXCEPT ![b] =
                          [@ EXCEPT !.status = IF status # cmd.booking.status
                                               THEN status ELSE @,
                                    !.timestamps = copy.timestamps]]
        /\ last' = Outcome("ok", <<>>)

CreateBookingCommand_undo ==
    LET b == cmd.booking.booking_id
    IN  /\ cmd.kind = "Create"
        /\ IF b # 0 /\ cmd.booking.status = "requested"
           THEN \* self.booking.update_status('cancelled')
                /\ cmd' = [cmd EXCEPT !.booking = update_status(@, "cancelled")]
                /\ bookings' = [bookings EXCEPT ![b] = update_status(@, "cancelled")]
                /\ last' = Outcome("ok", <<>>)
           ELSE UndoRaises
        /\ UNCHANGED <<recordVars, singletonVars, guardVars, queueVars, sessionVars, observers>>

CancelBookingCommand_undo ==
    /\ cmd.kind = "Cancel"
    /\ IF cmd.booking.booking_id # 0 /\ cmd.previous_status # "None"
       THEN RevertAndSave(cmd.previous_status, timestamp_key("cancelled"))
       ELSE UndoRaises
    /\ UNCHANGED <<recordVars, singletonVars, guardVars, queueVars, sessionVars, observers>>

AcceptBookingCommand_undo ==
    /\ cmd.kind = "Accept"
    /\ IF cmd.booking.booking_id # 0 /\ cmd.booking.status = "accepted"
       THEN RevertAndSave("requested", timestamp_key("accepted"))
       ELSE UndoRaises
    /\ UNCHANGED <<recordVars, singletonVars, guardVars, queueVars, sessionVars, observers>>

RejectBookingCommand_undo ==
    /\ cmd.kind = "Reject"
    /\ IF cmd.booking.booking_id # 0 /\ cmd.booking.status = "rejected"
       THEN RevertAndSave("requested", timestamp_key("rejected"))
       ELSE UndoRaises
    /\ UNCHANGED <<recordVars, singletonVars, guardVars, queueVars, sessionVars, observers>>

CompleteBookingCommand_undo ==
    /\ cmd.kind = "Complete"
    /\ UndoRaises
    /\ UNCHANGED <<recordVars, singletonVars, guardVars, queueVars, sessionVars, observers>>

(***************************************************************************)
(* BookingCommandQueue and BookingCommandInvoker.  A call of execute_next  *)
(* or undo_last_command is followed through its positions: the call up to *)
(* command.execute() or command.undo(), that method, and the rest of the   *)
(* call; while a call or an execute_all is in progress nothing else runs.  *)
(* An item carries, beside command and retries, the order number of its    *)
(* add_command and the number of times its command was executed.           *)
(***************************************************************************)
MaxQueued == 2

max_retries == 3

QueuedCommands ==
    {Command(k, 1, u, "none", 0) : k \in {"Accept", "Cancel", "Complete"},
                                  u \in {"owner1", "owner2"}}

NoItem == [command |-> NoCommand, retries |-> 0, id |-> 0, attempts |-> 0]
Idle == [call |-> "none", item |-> NoItem]
NoLoop == [active |-> FALSE, results |-> <<>>, errors |-> <<>>,
           history0 |-> 0, attempts0 |-> 0]

\* one more execution of an item's command; past max_retries the number is
\* no longer told apart
counted(attempts) == IF attempts > max_retries THEN attempts ELSE attempts + 1

RECURSIVE SumAttempts(_)
SumAttempts(items) ==
    IF items = <<>> THEN 0 ELSE Head(items).attempts + SumAttempts(Tail(items))

\* the executions of commands so far
TotalAttempts == SumAttempts(queue) + SumAttempts(history) + running.item.attempts

InitQueue ==
    /\ queue = <<>>
    /\ history = <<>>
    /\ running = Idle
    /\ loop = NoLoop

\* no call of the queue or of the invoker is in progress
Quiet == running = Idle /\ ~loop.active /\ cmd = NoCommand

\* BookingCommandInvoker.queue_command -> BookingCommandQueue.add_command
add_command(command) ==
    /\ Quiet
    /\ Len(queue) + Len(history) < MaxQueued
    /\ queue' = Append(queue, [command |-> command, retries |-> 0,
                               id |-> Len(queue) + Len(history) + 1,
                               attempts |-> 0])
    /\ last' = Outcome("ok", <<>>)
    /\ UNCHANGED <<history, running, loop>>
    /\ UNCHANGED <<bookings, cmd, observers, recordVars, singletonVars, guardVars,
                   sessionVars>>

\* execute_next up to command.execute(): an empty queue returns None,
\* otherwise the first item is popped
execute_next ==
    /\ running = Idle /\ cmd = NoCommand
    /\ IF queue = <<>>
       THEN /\ last' = Outcome("None", <<>>)
            /\ UNCHANGED <<queue, running, cmd>>
       ELSE /\ queue' = Tail(queue)
            /\ running' = [call |-> "execute_next",
                           item |-> [Head(queue) EXCEPT !.attempts = counted(@)]]
            /\ cmd' = Head(queue).command
            /\ last' = Outcome("executing", <<>>)
    /\ UNCHANGED <<history, loop>>
    /\ UNCHANGED <<bookings, observers, recordVars, singletonVars, guardVars,
                   sessionVars>>

\* command.execute() is next
Executing == running.call = "execute_next" /\ last.result = "executing"

retries_not_counted(retries) == retries

\* item['retries'] += 1
incremented(retries) == retries + 1

retries_exhausted_late(retries) == retries <= max_retries

\* if item['retries'] < self.max_retries
retries_left(retries) == retries < max_retries

\* execute_next after command.execute(): the history entry on success; on an
\* exception the retry count, the re-queue or the 'failed' entry, and raise.
\* An execute_all in progress appends the result or str(e).
execute_next_return ==
    /\ running.call = "execute_next" /\ last.result # "executing"
    /\ LET item    == [running.item EXCEPT !.command = cmd]
           retried == [item EXCEPT !.retries = incremented(@)]
           entry(i, status) == [command |-> i.command, status |-> status,
                                id |-> i.id, attempts |-> i.attempts]
       IN  IF last.result = "ok"
           THEN /\ history' = Append(history, entry(item, "success"))
                /\ loop' = IF loop.active
                           THEN [loop EXCEPT !.results = Append(@, "booking")]
                           ELSE loop
                /\ UNCHANGED queue
           ELSE /\ IF retries_left(retried.retries)
                   THEN /\ queue' = Append(queue, retried)
                        /\ UNCHANGED history
                   ELSE /\ history' = Append(history, entry(retried, "failed"))
                        /\ UNCHANGED queue
                /\ loop' = IF loop.active
                           THEN [loop EXCEPT !.errors = Append(@, last.result)]
                           ELSE loop
    /\ running' = Idle
    /\ cmd' = NoCommand
    /\ UNCHANGED last
    /\ UNCHANGED <<bookings, observers, recordVars, singletonVars, guardVars,
                   sessionVars>>

\* execute_all (process_queue): results = [], errors = []
execute_all ==
    /\ Quiet
    /\ loop' = [active |-> TRUE, results |-> <<>>, errors |-> <<>>,
                history0 |-> Len(history), attempts0 |-> TotalAttempts]
    /\ last' = Outcome("ok", <<>>)
    /\ UNCHANGED <<queue, history, running>>
    /\ UNCHANGED <<bookings, cmd, observers, recordVars, singletonVars, guardVars,
                   sessionVars>>

\* while self.queue is false: return results, errors
execute_all_return ==
    /\ loop.active /\ running = Idle
    /\ queue = <<>>
    /\ loop' = [loop EXCEPT !.active = FALSE]
    /\ last' = Outcome("ok", <<>>)
    /\ UNCHANGED <<queue, history, running>>
    /\ UNCHANGED <<bookings, cmd, observers, recordVars, singletonVars, guardVars,
                   sessionVars>>

\* get_history(limit=1): self.history[-1:]
get_history == IF history = <<>> THEN <<>> ELSE <<history[Len(history)]>>

undoable_any(h) == h # <<>>

\* if history and history[0]['status'] == 'success'
undoable(h) == h # <<>> /\ h[1].status = "success"

\* undo_last_command up to command.undo(), or its ValueError
undo_last_command ==
    /\ Quiet
    /\ IF undoable(get_history)
       THEN /\ cmd' = get_history[1].command
            /\ running' = [call |-> "undo_last_command", item |-> NoItem]
            /\ last' = Outcome("undoing", <<>>)
       ELSE /\ last' = Outcome("ValueError: No command to undo", <<>>)
            /\ UNCHANGED <<cmd, running>>
    /\ UNCHANGED <<queue, history, loop>>
    /\ UNCHANGED <<bookings, observers, recordVars, singletonVars, guardVars,
                   sessionVars>>

\* command.undo() is next
Undoing == running.call = "undo_last_command" /\ last.result = "undoing"

\* undo_last_command after command.undo(): the command object in the history
\* is the one undo worked on
undo_last_command_return ==
    /\ running.call = "undo_last_command" /\ last.result # "undoing"
    /\ history' = [history EXCEPT ![Len(history)].command = cmd]
    /\ running' = Idle
    /\ cmd' = NoCommand
    /\ UNCHANGED <<queue, loop, last>>
    /\ UNCHANGED <<bookings, observers, recordVars, singletonVars, guardVars,
                   sessionVars>>

NextQueue ==
    \/ Quiet /\ Len(bookings) < MaxBookings /\ create_booking("cust", "svc1", 0)
    \/ \E c \in QueuedCommands : add_command(c)
    \/ ~loop.active /\ execute_next
    \/ loop.active /\ queue # <<>> /\ execute_next
    \/ Executing /\ AcceptBookingCommand_execute
    \/ Executing /\ CancelBookingCommand_execute
    \/ Executing /\ CompleteBookingCommand_execute
    \/ execute_next_return
    \/ execute_all
    \/ execute_all_return
    \/ undo_last_command
    \/ Undoing /\ AcceptBookingCommand_undo
    \/ Undoing /\ CancelBookingCommand_undo
    \/ Undoing /\ CompleteBookingCommand_undo
    \/ undo_last_command_return


(***************************************************************************)
(* The two singletons, at the granularity of a thread switch.  A thread    *)
(* is a call stack of program positions (the head is where it runs) and    *)
(* its local values; None is 0, an object is its allocation number, a lock *)
(* is 0 when free and otherwise the thread that holds it.                  *)
(***************************************************************************)
NumThreads == 2

Threads == 1..NumThreads
None == 0

NewThread == [stack |-> <<>>, cfg |-> None, db |-> None, conn |-> None,
              connected |-> FALSE,
              started |-> [connected |-> FALSE, stored |-> FALSE]]

At(t, pc) == thr[t].stack # <<>> /\ Head(thr[t].stack) = pc
goto(th, pc) == [th EXCEPT !.stack = <<pc>> \o Tail(@)]
call(th, callee, return_pc) == [th EXCEPT !.stack = <<callee, return_pc>> \o Tail(@)]
return(th) == [th EXCEPT !.stack = Tail(@)]

released(lock, t) == IF lock = t THEN 0 ELSE lock

\* an exception leaves every frame of the thread; each with block on the way
\* releases its lock
raise(t) ==
    /\ thr' = [thr EXCEPT ![t] = NewThread]
    /\ Config' = [Config EXCEPT !._lock = released(@, t)]
    /\ SingletonDB' = [SingletonDB EXCEPT !._lock = released(@, t)]

\* a caller invokes cls(), get_instance() or get_connection()
Invoke(t, entry, return_pc) ==
    /\ thr[t].stack = <<>>
    /\ thr' = [thr EXCEPT ![t].stack = <<entry, return_pc>>,
                          ![t].started =
                              IF entry = "SingletonDB.get_connection"
                              THEN [connected |-> connects > 0,
                                    stored |-> SingletonDB._connection # None]
                              ELSE @]
    /\ UNCHANGED <<Config, SingletonDB, env_ok, connects, seen>>
    /\ UNCHANGED <<bookings, cmd, observers, last, recordVars, guardVars, queueVars, sessionVars>>

\* the caller receives the Config instance
ReturnConfig(t) ==
    /\ At(t, "ReturnConfig")
    /\ seen' = [seen EXCEPT !.Config = @ \cup {thr[t].cfg}]
    /\ thr' = [thr EXCEPT ![t] = NewThread]
    /\ UNCHANGED <<Config, SingletonDB, env_ok, connects>>
    /\ UNCHANGED <<bookings, cmd, observers, last, recordVars, guardVars, queueVars, sessionVars>>

\* the caller receives the SingletonDB instance
ReturnDB(t) ==
    /\ At(t, "ReturnDB")
    /\ seen' = [seen EXCEPT !.SingletonDB = @ \cup {thr[t].db}]
    /\ thr' = [thr EXCEPT ![t] = NewThread]
    /\ UNCHANGED <<Config, SingletonDB, env_ok, connects>>
    /\ UNCHANGED <<bookings, cmd, observers, last, recordVars, guardVars, queueVars, sessionVars>>

(* Config.__new__ *)
Config_new_first_check(t) ==
    /\ At(t, "Config.__new__")
    /\ thr' = [thr EXCEPT ![t] = goto(@, IF Config._instance = None
                                         THEN "Config.__new__.lock"
                                         ELSE "Config.__new__.return")]
    /\ UNCHANGED <<Config, SingletonDB, env_ok, connects, seen>>
    /\ UNCHANGED <<bookings, cmd, observers, last, recordVars, guardVars, queueVars, sessionVars>>

Config_new_acquire(t) ==
    /\ At(t, "Config.__new__.lock")
    /\ Config._lock = 0
    /\ Config' = [Config EXCEPT !._lock = t]
    /\ thr' = [thr EXCEPT ![t] = goto(@, "Config.__new__.locked")]
    /\ UNCHANGED <<SingletonDB, env_ok, connects, seen>>
    /\ UNCHANGED <<bookings, cmd, observers, last, recordVars, guardVars, queueVars, sessionVars>>

second_check_skipped(instance) == TRUE

second_check(instance) == instance = None

\* the second check, the allocation and the end of the with block
Config_new_locked(t) ==
    /\ At(t, "Config.__new__.locked")
    /\ Config' = IF second_check(Config._instance)
                 THEN [Config EXCEPT !._instance = Config.objects + 1,
                                     !.objects = @ + 1, !._lock = 0]
                 ELSE [Config EXCEPT !._lock = 0]
    /\ thr' = [thr EXCEPT ![t] = goto(@, "Config.__new__.return")]
    /\ UNCHANGED <<SingletonDB, env_ok, connects, seen>>
    /\ UNCHANGED <<bookings, cmd, observers, last, recordVars, guardVars, queueVars, sessionVars>>

Config_new_return(t) ==
    /\ At(t, "Config.__new__.return")
    /\ thr' = [thr EXCEPT ![t] = goto([@ EXCEPT !.cfg = Config._instance],
                                      "Config.__init__")]
    /\ UNCHANGED <<Config, SingletonDB, env_ok, connects, seen>>
    /\ UNCHANGED <<bookings, cmd, observers, last, recordVars, guardVars, queueVars, sessionVars>>

(* Config.__init__ *)
Config_init_first_check(t) ==
    /\ At(t, "Config.__init__")
    /\ thr' = [thr EXCEPT ![t] = IF Config._initialized
                                 THEN return(@)
                                 ELSE goto(@, "Config.__init__.lock")]
    /\ UNCHANGED <<Config, SingletonDB, env_ok, connects, seen>>
    /\ UNCHANGED <<bookings, cmd, observers, last, recordVars, guardVars, queueVars, sessionVars>>

Config_init_acquire(t) ==
    /\ At(t, "Config.__init__.lock")
    /\ Config._lock = 0
    /\ Config' = [Config EXCEPT !._lock = t]
    /\ thr' = [thr EXCEPT ![t] = goto(@, "Config.__init__.locked")]
    /\ UNCHANGED <<SingletonDB, env_ok, connects, seen>>
    /\ UNCHANGED <<bookings, cmd, observers, last, recordVars, guardVars, queueVars, sessionVars>>

\* the double check, the load of the environment, its validation
Config_init_locked(t) ==
    /\ At(t, "Config.__init__.locked")
    /\ IF Config._initialized
       THEN /\ Config' = [Config EXCEPT !._lock = 0]
            /\ thr' = [thr EXCEPT ![t] = return(@)]
            /\ UNCHANGED SingletonDB
       ELSE IF env_ok
       THEN /\ Config' = [Config EXCEPT !._initialized = TRUE, !._lock = 0]
            /\ thr' = [thr EXCEPT ![t] = return(@)]
            /\ UNCHANGED SingletonDB
       ELSE raise(t)
    /\ UNCHANGED <<env_ok, connects, seen>>
    /\ UNCHANGED <<bookings, cmd, observers, last, recordVars, guardVars, queueVars, sessionVars>>

(* Config.get_instance *)
Config_get_instance(t) ==
    /\ At(t, "Config.get_instance")
    /\ thr' = [thr EXCEPT ![t] = IF Config._instance = None
                                 THEN call(@, "Config.__new__", "Config.get_instance.store")
                                 ELSE goto(@, "Config.get_instance.return")]
    /\ UNCHANGED <<Config, SingletonDB, env_ok, connects, seen>>
    /\ UNCHANGED <<bookings, cmd, observers, last, recordVars, guardVars, queueVars, sessionVars>>

Config_get_instance_store(t) ==
    /\ At(t, "Config.get_instance.store")
    /\ Config' = [Config EXCEPT !._instance = thr[t].cfg]
    /\ thr' = [thr EXCEPT ![t] = goto(@, "Config.get_instance.return")]
    /\ UNCHANGED <<SingletonDB, env_ok, connects, seen>>
    /\ UNCHANGED <<bookings, cmd, observers, last, recordVars, guardVars, queueVars, sessionVars>>

Config_get_instance_return(t) ==
    /\ At(t, "Config.get_instance.return")
    /\ thr' = [thr EXCEPT ![t] = return([@ EXCEPT !.cfg = Config._instance])]
    /\ UNCHANGED <<Config, SingletonDB, env_ok, connects, seen>>
    /\ UNCHANGED <<bookings, cmd, observers, last, recordVars, guardVars, queueVars, sessionVars>>


(* SingletonDB.__new__ *)
SingletonDB_new_first_check(t) ==
    /\ At(t, "SingletonDB.__new__")
    /\ thr' = [thr EXCEPT ![t] = goto(@, IF SingletonDB._instance = None
                                         THEN "SingletonDB.__new__.lock"
                                         ELSE "SingletonDB.__new__.return")]
    /\ UNCHANGED <<Config, SingletonDB, env_ok, connects, seen>>
    /\ UNCHANGED <<bookings, cmd, observers, last, recordVars, guardVars, queueVars, sessionVars>>

SingletonDB_new_acquire(t) ==
    /\ At(t, "SingletonDB.__new__.lock")
    /\ SingletonDB._lock = 0
    /\ SingletonDB' = [SingletonDB EXCEPT !._lock = t]
    /\ thr' = [thr EXCEPT ![t] = goto(@, "SingletonDB.__new__.locked")]
    /\ UNCHANGED <<Config, env_ok, connects, seen>>
    /\ UNCHANGED <<bookings, cmd, observers, last, recordVars, guardVars, queueVars, sessionVars>>

\* the second check, the allocation and the end of the with block
SingletonDB_new_locked(t) ==
    /\ At(t, "SingletonDB.__new__.locked")
    /\ SingletonDB' = IF second_check(SingletonDB._instance)
                      THEN [SingletonDB EXCEPT !._instance = SingletonDB.objects + 1,
                                               !.objects = @ + 1, !._lock = 0]
                      ELSE [SingletonDB EXCEPT !._lock = 0]
    /\ thr' = [thr EXCEPT ![t] = goto(@, "SingletonDB.__new__.return")]
    /\ UNCHANGED <<Config, env_ok, connects, seen>>
    /\ UNCHANGED <<bookings, cmd, observers, last, recordVars, guardVars, queueVars, sessionVars>>

SingletonDB_new_return(t) ==
    /\ At(t, "SingletonDB.__new__.return")
    /\ thr' = [thr EXCEPT ![t] = goto([@ EXCEPT !.db = SingletonDB._instance],
                                      "SingletonDB.__init__")]
    /\ UNCHANGED <<Config, SingletonDB, env_ok, connects, seen>>
    /\ UNCHANGED <<bookings, cmd, observers, last, recordVars, guardVars, queueVars, sessionVars>>

(* SingletonDB.__init__ *)
SingletonDB_init_first_check(t) ==
    /\ At(t, "SingletonDB.__init__")
    /\ thr' = [thr EXCEPT ![t] = IF SingletonDB._initialized
                                 THEN return(@)
                                 ELSE goto(@, "SingletonDB.__init__.lock")]
    /\ UNCHANGED <<Config, SingletonDB, env_ok, connects, seen>>
    /\ UNCHANGED <<bookings, cmd, observers, last, recordVars, guardVars, queueVars, sessionVars>>

SingletonDB_init_acquire(t) ==
    /\ At(t, "SingletonDB.__init__.lock")
    /\ SingletonDB._lock = 0
    /\ SingletonDB' = [SingletonDB EXCEPT !._lock = t]
    /\ thr' = [thr EXCEPT ![t] = goto(@, "SingletonDB.__init__.locked")]
    /\ UNCHANGED <<Config, env_ok, connects, seen>>
    /\ UNCHANGED <<bookings, cmd, observers, last, recordVars, guardVars, queueVars, sessionVars>>

double_check_skipped(initialized) == FALSE

double_check(initialized) == initialized

\* the double check; then config = Config.get_instance()
SingletonDB_init_locked(t) ==
    /\ At(t, "SingletonDB.__init__.locked")
    /\ IF double_check(SingletonDB._initialized)
       THEN /\ SingletonDB' = [SingletonDB EXCEPT !._lock = 0]
            /\ thr' = [thr EXCEPT ![t] = return(@)]
       ELSE /\ thr' = [thr EXCEPT ![t] = call(@, "Config.get_instance",
                                              "SingletonDB.__init__.connect")]
            /\ UNCHANGED SingletonDB
    /\ UNCHANGED <<Config, env_ok, connects, seen>>
    /\ UNCHANGED <<bookings, cmd, observers, last, recordVars, guardVars, queueVars, sessionVars>>

\* mongoengine.connect(...) returns a connection, or raises
connect(t) ==
    /\ At(t, "SingletonDB.__init__.connect")
    /\ \/ /\ connects' = connects + 1
          /\ thr' = [thr EXCEPT ![t] = goto([@ EXCEPT !.conn = connects + 1],
                                            "SingletonDB.__init__.store")]
          /\ UNCHANGED <<Config, SingletonDB>>
       \/ /\ raise(t)
          /\ UNCHANGED connects
    /\ UNCHANGED <<env_ok, seen>>
    /\ UNCHANGED <<bookings, cmd, observers, last, recordVars, guardVars, queueVars, sessionVars>>

\* SingletonDB._connection = <the value connect returned>
SingletonDB_init_store(t) ==
    /\ At(t, "SingletonDB.__init__.store")
    /\ SingletonDB' = [SingletonDB EXCEPT !._connection = thr[t].conn]
    /\ thr' = [thr EXCEPT ![t] = goto(@, "SingletonDB.__init__.mark")]
    /\ UNCHANGED <<Config, env_ok, connects, seen>>
    /\ UNCHANGED <<bookings, cmd, observers, last, recordVars, guardVars, queueVars, sessionVars>>

\* SingletonDB._initialized = True, and the end of the with block
SingletonDB_init_mark(t) ==
    /\ At(t, "SingletonDB.__init__.mark")
    /\ SingletonDB' = [SingletonDB EXCEPT !._initialized = TRUE, !._lock = 0]
    /\ thr' = [thr EXCEPT ![t] = return(@)]
    /\ UNCHANGED <<Config, env_ok, connects, seen>>
    /\ UNCHANGED <<bookings, cmd, observers, last, recordVars, guardVars, queueVars, sessionVars>>

(* SingletonDB.get_instance *)
SingletonDB_get_instance(t) ==
    /\ At(t, "SingletonDB.get_instance")
    /\ thr' = [thr EXCEPT ![t] = IF SingletonDB._instance = None
                                 THEN call(@, "SingletonDB.__new__",
                                           "SingletonDB.get_instance.store")
                                 ELSE goto(@, "SingletonDB.get_instance.return")]
    /\ UNCHANGED <<Config, SingletonDB, env_ok, connects, seen>>
    /\ UNCHANGED <<bookings, cmd, observers, last, recordVars, guardVars, queueVars, sessionVars>>

SingletonDB_get_instance_store(t) ==
    /\ At(t, "SingletonDB.get_instance.store")
    /\ SingletonDB' = [SingletonDB EXCEPT !._instance = thr[t].db]
    /\ thr' = [thr EXCEPT ![t] = goto(@, "SingletonDB.get_instance.return")]
    /\ UNCHANGED <<Config, env_ok, connects, seen>>
    /\ UNCHANGED <<bookings, cmd, observers, last, recordVars, guardVars, queueVars, sessionVars>>

SingletonDB_get_instance_return(t) ==
    /\ At(t, "SingletonDB.get_instance.return")
    /\ thr' = [thr EXCEPT ![t] = return([@ EXCEPT !.db = SingletonDB._instance])]
    /\ UNCHANGED <<Config, SingletonDB, env_ok, connects, seen>>
    /\ UNCHANGED <<bookings, cmd, observers, last, recordVars, guardVars, queueVars, sessionVars>>

(* SingletonDB.get_connection: instance = cls.get_instance(), then the return *)
get_connection(t) ==
    /\ At(t, "SingletonDB.get_connection")
    /\ thr' = [thr EXCEPT ![t] = call(@, "SingletonDB.get_instance",
                                      "SingletonDB.get_connection.return")]
    /\ UNCHANGED <<Config, SingletonDB, env_ok, connects, seen>>
    /\ UNCHANGED <<bookings, cmd, observers, last, recordVars, guardVars, queueVars, sessionVars>>

get_connection_return(t) ==
    /\ At(t, "SingletonDB.get_connection.return")
    /\ thr' = [thr EXCEPT ![t] = return([@ EXCEPT !.conn = SingletonDB._connection])]
    /\ UNCHANGED <<Config, SingletonDB, env_ok, connects, seen>>
    /\ UNCHANGED <<bookings, cmd, observers, last, recordVars, guardVars, queueVars, sessionVars>>

\* the caller receives what get_connection returned
ReturnConnection(t) ==
    /\ At(t, "ReturnConnection")
    /\ thr' = [thr EXCEPT ![t] = NewThread]
    /\ UNCHANGED <<Config, SingletonDB, env_ok, connects, seen>>
    /\ UNCHANGED <<bookings, cmd, observers, last, recordVars, guardVars, queueVars, sessionVars>>

\* SingletonDB.is_connected(): _connection is stored before _initialized and
\* neither is ever reset, so the two reads are taken in one step
is_connected(t) ==
    /\ thr[t].stack = <<>>
    /\ thr' = [thr EXCEPT ![t].stack = <<"ReturnConnected">>,
                          ![t].connected = SingletonDB._initialized
                                           /\ SingletonDB._connection # None]
    /\ UNCHANGED <<Config, SingletonDB, env_ok, connects, seen>>
    /\ UNCHANGED <<bookings, cmd, observers, last, recordVars, guardVars, queueVars, sessionVars>>

\* the caller receives what is_connected returned
ReturnConnected(t) ==
    /\ At(t, "ReturnConnected")
    /\ thr' = [thr EXCEPT ![t] = NewThread]
    /\ UNCHANGED <<Config, SingletonDB, env_ok, connects, seen>>
    /\ UNCHANGED <<bookings, cmd, observers, last, recordVars, guardVars, queueVars, sessionVars>>

InitSingletons ==
    /\ Config = [_instance |-> None, _lock |-> 0, _initialized |-> FALSE, objects |-> 0]
    /\ SingletonDB = [_instance |-> None, _lock |-> 0, _initialized |-> FALSE,
                      _connection |-> None, objects |-> 0]
    /\ thr = [t \in Threads |-> NewThread]
    /\ connects = 0
    /\ seen = [Config |-> {}, SingletonDB |-> {}]

NextSingleton ==
    \/ \E t \in Threads : Invoke(t, "Config.__new__", "ReturnConfig")
    \/ \E t \in Threads : Invoke(t, "Config.get_instance", "ReturnConfig")
    \/ \E t \in Threads : Invoke(t, "SingletonDB.__new__", "ReturnDB")
    \/ \E t \in Threads : Invoke(t, "SingletonDB.get_instance", "ReturnDB")
    \/ \E t \in Threads : Invoke(t, "SingletonDB.get_connection", "ReturnConnection")
    \/ \E t \in Threads : ReturnConfig(t)
    \/ \E t \in Threads : ReturnDB(t)
    \/ \E t \in Threads : ReturnConnection(t)
    \/ \E t \in Threads : Config_new_first_check(t)
    \/ \E t \in Threads : Config_new_acquire(t)
    \/ \E t \in Threads : Config_new_locked(t)
    \/ \E t \in Threads : Config_new_return(t)
    \/ \E t \in Threads : Config_init_first_check(t)
    \/ \E t \in Threads : Config_init_acquire(t)
    \/ \E t \in Threads : Config_init_locked(t)
    \/ \E t \in Threads : Config_get_instance(t)
    \/ \E t \in Threads : Config_get_instance_store(t)
    \/ \E t \in Threads : Config_get_instance_return(t)
    \/ \E t \in Threads : SingletonDB_new_first_check(t)
    \/ \E t \in Threads : SingletonDB_new_acquire(t)
    \/ \E t \in Threads : SingletonDB_new_locked(t)
    \/ \E t \in Threads : SingletonDB_new_return(t)
    \/ \E t \in Threads : SingletonDB_init_first_check(t)
    \/ \E t \in Threads : SingletonDB_init_acquire(t)
    \/ \E t \in Threads : SingletonDB_init_locked(t)
    \/ \E t \in Threads : connect(t)
    \/ \E t \in Threads : SingletonDB_init_store(t)
    \/ \E t \in Threads : SingletonDB_init_mark(t)
    \/ \E t \in Threads : SingletonDB_get_instance(t)
    \/ \E t \in Threads : SingletonDB_get_instance_store(t)
    \/ \E t \in Threads : SingletonDB_get_instance_return(t)
    \/ \E t \in Threads : get_connection(t)
    \/ \E t \in Threads : get_connection_return(t)
    \/ \E t \in Threads : is_connected(t)
    \/ \E t \in Threads : ReturnConnected(t)


(***************************************************************************)
(* The stored records outside the booking lifecycle: users, businesses,    *)
(* services and categories, and the operations that create, deactivate or  *)
(* delete them.                                                            *)
(***************************************************************************)
ROLES == {"customer", "business_owner", "admin"}

SeedUsers ==
    [u \in {"owner1", "owner2", "cust", "admin1"} |->
        [role |-> CASE u = "cust" -> "customer"
                    [] u = "admin1" -> "admin"
                    [] OTHER -> "business_owner"]]

\* ids and names a request can carry
UserInputs == DOMAIN SeedUsers \cup {"nouser"}
NewBusinessIds == {"biz3"}
BusinessInputs == {"biz1", "biz2", "biz3"}
NewServiceIds == {"svc5"}
CategoryNames == {"cleaning", "pets"}

\* the category names a form can carry: a name, the name padded with blanks,
\* the name in another case, and blanks only
SubmittedCategoryNames == CategoryNames \cup {" pets ", "Pets", " "}

\* str.strip() on the submitted names
strip(name) ==
    CASE name = " pets " -> "pets"
      [] name = " "      -> ""
      [] OTHER           -> name

\* patterns/factory_category.py: the keys of CategoryFactory._categories
BuiltInCategories ==
    {"cleaning", "plumbing", "electrical", "painting", "carpentry",
     "landscaping", "hvac", "other"}

\* CategoryFactory.validate_category against a categories collection
valid_in(stored, name) ==
    IF name = "" THEN FALSE
    ELSE IF name \in BuiltInCategories THEN TRUE
    ELSE name \in stored

validate_category(name) == valid_in(categories, name)

Flash(message) == Outcome(message, <<>>)

\* uuid4 defaults: an id no stored document has
fresh(pool, taken) == IF pool \ taken = {} THEN {} ELSE {CHOOSE x \in pool \ taken : TRUE}

\* create_business with one named service in the request: the builder saves
\* the business, then the service is saved
create_business(owner_id, category) ==
    /\ IF strip(category) = ""
       THEN /\ last' = Outcome("ValueError", <<>>)
            /\ UNCHANGED <<businesses, services>>
       ELSE /\ \E b \in fresh(NewBusinessIds, DOMAIN businesses) :
               \E s \in fresh(NewServiceIds, DOMAIN services) :
                  /\ businesses' = [x \in DOMAIN businesses \cup {b} |->
                                       IF x = b
                                       THEN [owner_id |-> owner_id, is_active |-> TRUE,
                                             category |-> strip(category)]
                                       ELSE businesses[x]]
                  /\ services' = [x \in DOMAIN services \cup {s} |->
                                     IF x = s
                                     THEN [business_id |-> b, duration_minutes |-> 1,
                                           is_active |-> TRUE]
                                     ELSE services[x]]
            /\ last' = Outcome("ok", <<>>)
    /\ UNCHANGED <<users, categories>>
    /\ UNCHANGED <<bookings, cmd, observers, singletonVars, guardVars, queueVars, sessionVars>>

create_service(business_id) ==
    /\ IF business_id \notin DOMAIN businesses
       THEN /\ last' = Outcome("ValueError", <<>>)
            /\ UNCHANGED services
       ELSE \E s \in fresh(NewServiceIds, DOMAIN services) :
            /\ services' = [x \in DOMAIN services \cup {s} |->
                               IF x = s
                               THEN [business_id |-> business_id, duration_minutes |-> 1,
                                     is_active |-> TRUE]
                               ELSE services[x]]
            /\ last' = Outcome("ok", <<>>)
    /\ UNCHANGED <<users, businesses, categories>>
    /\ UNCHANGED <<bookings, cmd, observers, singletonVars, guardVars, queueVars, sessionVars>>

deactivate_business(business_id) ==
    /\ IF business_id \notin DOMAIN businesses
       THEN /\ last' = Outcome("None", <<>>)
            /\ UNCHANGED businesses
       ELSE /\ businesses' = [businesses EXCEPT ![business_id].is_active = FALSE]
            /\ last' = Outcome("ok", <<>>)
    /\ UNCHANGED <<users, services, categories>>
    /\ UNCHANGED <<bookings, cmd, observers, singletonVars, guardVars, queueVars, sessionVars>>

deactivate_service(service_id) ==
    /\ IF service_id \notin DOMAIN services
       THEN /\ last' = Outcome("None", <<>>)
            /\ UNCHANGED services
       ELSE /\ services' = [services EXCEPT ![service_id].is_active = FALSE]
            /\ last' = Outcome("ok", <<>>)
    /\ UNCHANGED <<users, businesses, categories>>
    /\ UNCHANGED <<bookings, cmd, observers, singletonVars, guardVars, queueVars, sessionVars>>

\* User has no is_active field and UserMixin.is_active is a read-only
\* property: the assignment raises, and nothing is saved
toggle_user_status(user_id) ==
    /\ last' = IF user_id \in DOMAIN users
               THEN Outcome("AttributeError", <<>>)
               ELSE Flash("User not found")
    /\ UNCHANGED recordVars
    /\ UNCHANGED <<bookings, cmd, observers, singletonVars, guardVars, queueVars, sessionVars>>

toggle_business_status(business_id) ==
    /\ IF business_id \notin DOMAIN businesses
       THEN /\ last' = Flash("Business not found")
            /\ UNCHANGED businesses
       ELSE /\ businesses' = [businesses EXCEPT ![business_id].is_active = ~@]
            /\ last' = Flash(IF businesses[business_id].is_active
                             THEN "deactivated" ELSE "activated")
    /\ UNCHANGED <<users, services, categories>>
    /\ UNCHANGED <<bookings, cmd, observers, singletonVars, guardVars, queueVars, sessionVars>>

create_category(submitted) ==
    /\ LET name == strip(submitted)
       IN  IF name = ""
           THEN /\ last' = Flash("Please provide at least a Display Name")
                /\ UNCHANGED categories
           ELSE IF name \in categories
           THEN /\ last' = Flash("A category with this name already exists.")
                /\ UNCHANGED categories
           ELSE /\ categories' = categories \cup {name}
                /\ last' = Flash("created")
    /\ UNCHANGED <<users, businesses, services>>
    /\ UNCHANGED <<bookings, cmd, observers, singletonVars, guardVars, queueVars, sessionVars>>

usage_ignored(name) == 0

\* Business.objects(category=name).count()
usage(name) == Cardinality({b \in DOMAIN businesses : businesses[b].category = name})

in_use_never(name) == FALSE

\* usage > 0
in_use(name) == usage(name) > 0

delete_category(name) ==
    /\ IF name \notin categories
       THEN /\ last' = Flash("built-in or does not exist")
            /\ UNCHANGED categories
       ELSE IF in_use(name)
       THEN /\ last' = Flash("Cannot delete")
            /\ UNCHANGED categories
       ELSE /\ categories' = categories \ {name}
            /\ last' = Flash("deleted")
    /\ UNCHANGED <<users, businesses, services>>
    /\ UNCHANGED <<bookings, cmd, observers, singletonVars, guardVars, queueVars, sessionVars>>

\* DELETE /<user_id>: the route answers from the deleted_count of the
\* service's delete
delete_user(user_id) ==
    /\ IF user_id \notin DOMAIN users
       THEN /\ last' = Outcome("404", <<>>)
            /\ UNCHANGED users
       ELSE /\ users' = [u \in DOMAIN users \ {user_id} |-> users[u]]
            /\ last' = Outcome("200", <<>>)
    /\ UNCHANGED <<businesses, services, categories>>
    /\ UNCHANGED <<bookings, cmd, observers, singletonVars, guardVars, queueVars, sessionVars>>

NextStore ==
    \/ \E o \in {"owner1", "owner2"}, c \in SubmittedCategoryNames : create_business(o, c)
    \/ \E b \in {"biz3"} : create_service(b)
    \/ \E b \in {"biz1", "biz3"} : deactivate_business(b)
    \/ \E s \in {"svc1", "svc5", "nosvc"} : deactivate_service(s)
    \/ \E u \in {"cust", "nouser"} : toggle_user_status(u)
    \/ \E b \in {"biz1", "biz3"} : toggle_business_status(b)
    \/ \E c \in SubmittedCategoryNames : create_category(c)
    \/ \E c \in SubmittedCategoryNames : delete_category(c)
    \/ \E u \in {"cust", "nouser"} : delete_user(u)
    \/ Len(bookings) < MaxBookings /\ create_booking("cust", "svc1", 0)

(***************************************************************************)
(* business_owner_required around a route handler.                         *)
(***************************************************************************)
MaxHandlerRuns == 4

Anonymous == "anonymous"
NoResponse == [status |-> 0, json |-> FALSE, location |-> "", flash |-> ""]
Headers == {"XMLHttpRequest", "fetch", "absent"}

is_authenticated(user) == user # Anonymous

wrong_role_skipped(user) == FALSE

\* not hasattr(current_user, 'role') or current_user.role != 'business_owner'
wrong_role(user) == user \notin DOMAIN users \/ users[user].role # "business_owner"

login_user(user_id) ==
    /\ user_id \in DOMAIN users
    /\ current_user' = user_id
    /\ UNCHANGED <<response, handler_runs>>
    /\ UNCHANGED <<bookings, cmd, observers, last, recordVars, singletonVars, queueVars, sessionVars>>

logout_user ==
    /\ current_user' = Anonymous
    /\ UNCHANGED <<response, handler_runs>>
    /\ UNCHANGED <<bookings, cmd, observers, last, recordVars, singletonVars, queueVars, sessionVars>>

business_owner_required(x_requested_with) ==
    /\ IF ~is_authenticated(current_user)
       THEN /\ response' = IF x_requested_with = "XMLHttpRequest"
                           THEN [status |-> 401, json |-> TRUE,
                                 location |-> "auth.login", flash |-> ""]
                           ELSE [status |-> 302, json |-> FALSE,
                                 location |-> "auth.login", flash |-> "warning"]
            /\ UNCHANGED handler_runs
       ELSE IF wrong_role(current_user)
       THEN /\ response' = IF x_requested_with = "XMLHttpRequest"
                           THEN [status |-> 403, json |-> TRUE,
                                 location |-> "", flash |-> ""]
                           ELSE [status |-> 302, json |-> FALSE,
                                 location |-> "home.index", flash |-> "danger"]
            /\ UNCHANGED handler_runs
       ELSE /\ handler_runs < MaxHandlerRuns
            /\ handler_runs' = handler_runs + 1
            /\ response' = [status |-> 200, json |-> FALSE,
                            location |-> "", flash |-> ""]
    /\ UNCHANGED current_user
    /\ UNCHANGED <<bookings, cmd, observers, last, recordVars, singletonVars, queueVars, sessionVars>>

NextGuard ==
    \/ \E u \in UserInputs : login_user(u)
    \/ logout_user
    \/ \E h \in Headers : business_owner_required(h)


(***************************************************************************)
(* views/auth.py, patterns/auth_strategy.py, app.py: registration with a   *)
(* verification code, login behind a captcha, and the hook that drops the  *)
(* sessions of an earlier boot.  The session is the client's cookie: a     *)
(* function from the keys it holds to their values.  accounts is the users *)
(* collection as these routes see it, in insertion order.                  *)
(***************************************************************************)
MaxBoots == 2

\* what dict.get and request.form.get answer for a missing key
NoValue == "None"

get(s, key) == IF key \in DOMAIN s THEN s[key] ELSE NoValue

put(s, key, value) == [k \in DOMAIN s \cup {key} |-> IF k = key THEN value ELSE s[k]]

pop(s, keys) == [k \in DOMAIN s \ keys |-> s[k]]

RegKeys == {"reg_email", "reg_phone", "reg_code", "reg_method"}

\* generate_verification_code: two of the 5-digit strings
Codes == {"03421", "77777"}

\* the code field of a verify_register POST, which may be missing
SubmittedCodes == Codes \cup {NoValue}

\* the answers a captcha stores: a ball colour or the result of a sum
Answers == {"red", "7"}

\* the captcha_answer field of a login POST, which may be missing
SubmittedAnswers == Answers \cup {NoValue}

\* the login_as field of a login POST, which may be missing
SubmittedLoginAs == {"customer", "business_owner", "admin", NoValue}

Account(email, phone, role) ==
    [email |-> email, phone |-> phone, role |-> role, is_verified |-> FALSE,
     password |-> "pw"]

\* the users already stored: one of each role
SeedAccounts ==
    <<Account("cust@x", "111", "customer"),
      Account("owner@x", "222", "business_owner"),
      Account("admin@x", "333", "admin")>>

\* the registration forms submitted
RegistrationForms ==
    {[email |-> "new@x", phone |-> "555", role |-> "customer"],
     [email |-> "more@x", phone |-> "556", role |-> "customer"]}

Identifiers == {"cust@x", "222", "admin@x", "nobody"}

Passwords == {"pw", "wrong"}

stale_never(boot, current_boot) == FALSE

\* boot_id != current_boot
stale(boot, current_boot) == boot # current_boot

\* app.py: enforce_fresh_session_on_restart, the first before_request hook;
\* after session.clear() no user is loaded, so logout_user is not reached
enforce_fresh_session_on_restart(s, current_boot) ==
    IF "APP_BOOT_ID" \notin DOMAIN s
    THEN put(s, "APP_BOOT_ID", current_boot)
    ELSE IF stale(s["APP_BOOT_ID"], current_boot)
    THEN put(NoSession, "APP_BOOT_ID", current_boot)
    ELSE s

\* what the hook does to the session it is given
hook_calls(s, current_boot) ==
    IF "APP_BOOT_ID" \notin DOMAIN s THEN <<"stamp">>
    ELSE IF stale(s["APP_BOOT_ID"], current_boot) THEN <<"session.clear", "stamp">>
    ELSE <<>>

fresh_session == enforce_fresh_session_on_restart(session, boot_id)

\* a request to a route that does not touch the session
visit ==
    /\ session' = fresh_session
    /\ last' = Outcome("page", hook_calls(session, boot_id))
    /\ UNCHANGED <<boot_id, accounts>>
    /\ UNCHANGED <<bookings, cmd, observers, recordVars, singletonVars, guardVars, queueVars>>

\* the server is started again: a new APP_BOOT_ID; the client keeps its cookie
restart ==
    /\ boot_id < MaxBoots
    /\ boot_id' = boot_id + 1
    /\ last' = Outcome("restart", <<>>)
    /\ UNCHANGED <<session, accounts>>
    /\ UNCHANGED <<bookings, cmd, observers, recordVars, singletonVars, guardVars, queueVars>>

\* VerificationStrategyFactory.create_strategy: unknown methods get email
create_strategy(method) == IF method = "phone" THEN "phone" ELSE "email"

\* the strategies' get_contact_field
get_contact_field(strategy) == strategy

\* the strategies' send_verification with the code generated
send_verification(s, strategy, contact, code) ==
    put(put(put(s, IF strategy = "phone" THEN "reg_phone" ELSE "reg_email", contact),
            "reg_code", code),
        "reg_method", strategy)

code_matches_any(stored_code, code) == TRUE

\* stored_code == code
code_matches(stored_code, code) == stored_code = code

\* the strategies' verify_code
verify_code(s, strategy, contact, code) ==
    /\ get(s, "reg_method") = strategy
    /\ get(s, IF strategy = "phone" THEN "reg_phone" ELSE "reg_email") = contact
    /\ code_matches(get(s, "reg_code"), code)

\* User.objects(<field>=value).first(): the index of the first match, or 0
first_with(field, value) ==
    LET matches == {i \in 1..Len(accounts) : accounts[i][field] = value}
    IN  IF matches = {} THEN 0 ELSE CHOOSE i \in matches : \A j \in matches : i <= j

\* POST /register: register_user, then the strategy's send_verification
register(form, verification_method) ==
    /\ IF first_with("email", form.email) # 0 \/ first_with("phone", form.phone) # 0
       THEN /\ last' = Outcome("already registered", <<>>)
            /\ session' = fresh_session
            /\ UNCHANGED accounts
       ELSE /\ accounts' = Append(accounts, Account(form.email, form.phone, form.role))
            /\ LET strategy == create_strategy(verification_method)
                   contact  == form[get_contact_field(strategy)]
               IN  \E code \in Codes :
                      session' = send_verification(fresh_session, strategy, contact, code)
            /\ last' = Outcome("Registration successful", <<>>)
    /\ UNCHANGED boot_id
    /\ UNCHANGED <<bookings, cmd, observers, recordVars, singletonVars, guardVars, queueVars>>

\* session.get('reg_email') or session.get('reg_phone')
pending_contact(s) ==
    IF get(s, "reg_email") # NoValue THEN get(s, "reg_email") ELSE get(s, "reg_phone")

\* POST /verify_register
verify_register(code_entered) ==
    /\ LET s       == fresh_session
           method  == get(s, "reg_method")
           contact == pending_contact(s)
       IN  IF contact = NoValue \/ method = NoValue
           THEN /\ last' = Outcome("No verification pending.", <<>>)
                /\ session' = s
                /\ UNCHANGED accounts
           ELSE LET strategy == create_strategy(method)
                    user     == first_with(get_contact_field(strategy), contact)
                IN  IF verify_code(s, strategy, contact, code_entered)
                    THEN /\ accounts' = IF user # 0
                                        THEN [accounts EXCEPT ![user].is_verified = TRUE]
                                        ELSE accounts
                         /\ session' = pop(s, RegKeys)
                         /\ last' = Outcome("Verification successful!", <<>>)
                    ELSE /\ last' = Outcome("Verification code incorrect.", <<>>)
                         /\ session' = s
                         /\ UNCHANGED accounts
    /\ UNCHANGED boot_id
    /\ UNCHANGED <<bookings, cmd, observers, recordVars, singletonVars, guardVars, queueVars>>

\* GET /login: a captcha is made and its answer stored
login_page(answer) ==
    /\ session' = put(fresh_session, "captcha_answer", answer)
    /\ last' = Outcome("login.html", <<>>)
    /\ UNCHANGED <<boot_id, accounts>>
    /\ UNCHANGED <<bookings, cmd, observers, recordVars, singletonVars, guardVars, queueVars>>

\* CaptchaAuthStrategy.verify
verify(user_input, session_data) == user_input = get(session_data, "captcha_answer")

\* controllers/user_controller.py: login_user(identifier, password), the index
\* of the user or 0
controller_login(identifier, password) ==
    LET matches == {i \in 1..Len(accounts) :
                       accounts[i].email = identifier \/ accounts[i].phone = identifier}
        user    == IF matches = {} THEN 0
                   ELSE CHOOSE i \in matches : \A j \in matches : i <= j
    IN  IF user = 0 THEN 0
        ELSE IF accounts[user].password # password THEN 0
        ELSE user

\* the role validation between the credential check and login_user
role_validation_passed(login_as, user_role) ==
    IF login_as = "business_owner" THEN user_role = "business_owner"
    ELSE IF login_as = "customer" THEN user_role \in {"customer", NoValue}
    ELSE TRUE

\* POST /login; the outcome lists the login_as the handler read and the
\* calls it went on to make
login(identifier, password, submitted_login_as, user_captcha) ==
    /\ LET s        == fresh_session
           login_as == IF submitted_login_as = NoValue THEN "customer"
                       ELSE submitted_login_as
           user     == controller_login(identifier, password)
       IN  IF ~verify(user_captcha, s)
           THEN /\ last' = Outcome("Captcha incorrect. Try again.", <<login_as>>)
                /\ session' = s
           ELSE IF user = 0
           THEN /\ last' = Outcome("Invalid credentials.", <<login_as, "controller_login">>)
                /\ session' = s
           ELSE IF ~role_validation_passed(login_as, accounts[user].role)
           THEN /\ last' = Outcome("Login failed", <<login_as, "controller_login">>)
                /\ session' = s
           ELSE /\ last' = Outcome("Login successful!",
                                   <<login_as, "controller_login", "login_user">>)
                /\ session' = put(s, "_user_id", accounts[user].email)
    /\ UNCHANGED <<boot_id, accounts>>
    /\ UNCHANGED <<bookings, cmd, observers, recordVars, singletonVars, guardVars, queueVars>>

\* GET /logout: logout_user(), then session.clear()
logout ==
    /\ session' = NoSession
    /\ last' = Outcome("Logged out successfully", <<>>)
    /\ UNCHANGED <<boot_id, accounts>>
    /\ UNCHANGED <<bookings, cmd, observers, recordVars, singletonVars, guardVars, queueVars>>

\* views/admin.py: POST /admin/login with the hardcoded credentials or not
admin_login(credentials_ok) ==
    /\ IF credentials_ok
       THEN /\ session' = put(put(fresh_session, "admin_logged_in", "True"),
                              "admin_username", "admin")
            /\ last' = Outcome("Welcome, Admin!", <<>>)
       ELSE /\ session' = fresh_session
            /\ last' = Outcome("Invalid credentials", <<>>)
    /\ UNCHANGED <<boot_id, accounts>>
    /\ UNCHANGED <<bookings, cmd, observers, recordVars, singletonVars, guardVars, queueVars>>

\* views/admin.py: GET /admin/logout
admin_logout ==
    /\ session' = pop(fresh_session, {"admin_logged_in", "admin_username"})
    /\ last' = Outcome("Logged out successfully", <<"admin">>)
    /\ UNCHANGED <<boot_id, accounts>>
    /\ UNCHANGED <<bookings, cmd, observers, recordVars, singletonVars, guardVars, queueVars>>

NextAuth ==
    \/ visit
    \/ restart
    \/ \E f \in RegistrationForms, m \in {"email", "phone"} : register(f, m)
    \/ \E c \in SubmittedCodes : verify_register(c)
    \/ \E a \in Answers : login_page(a)
    \/ \E i \in Identifiers, p \in Passwords, r \in SubmittedLoginAs,
          a \in SubmittedAnswers : login(i, p, r, a)
    \/ logout
    \/ \E ok \in BOOLEAN : admin_login(ok)
    \/ admin_logout


(***************************************************************************)
(* Initial state: the seeded businesses and services, no booking, the      *)
(* three default observers attached.                                       *)
(***************************************************************************)
SeedBusinesses ==
    [b \in {"biz1", "biz2"} |->
        [owner_id |-> IF b = "biz1" THEN "owner1" ELSE "owner2", is_active |-> TRUE,
         category |-> "cleaning"]]

SeedServices ==
    [s \in {"svc1", "svc2", "svc3", "svc4"} |->
        [business_id      |-> IF s = "svc3" THEN "biz2" ELSE "biz1",
         duration_minutes |-> IF s = "svc2" THEN 2 ELSE 1,
         is_active        |-> s # "svc4"]]

\* service ids a request can name: the stored ones and an unknown one
ServiceInputs == DOMAIN SeedServices \cup {"nosvc"}

Init ==
    /\ bookings = <<>>
    /\ businesses = SeedBusinesses
    /\ services = SeedServices
    /\ cmd = NoCommand
    /\ observers = DefaultObservers
    /\ last = Outcome("init", <<>>)
    /\ InitSingletons
    /\ env_ok = TRUE
    /\ users = SeedUsers
    /\ categories = {}
    /\ current_user = Anonymous
    /\ response = NoResponse
    /\ handler_runs = 0
    /\ InitQueue
    /\ session = NoSession
    /\ boot_id = 1
    /\ accounts = SeedAccounts

(***************************************************************************)
(* The booking lifecycle: every operation that writes a booking's status.  *)
(***************************************************************************)
Next ==
    \/ \E s \in {"svc1", "svc4", "nosvc"} :
          /\ Len(bookings) < MaxBookings
          /\ create_booking("cust", s, 0)
    \/ \E b \in BookingIds, s \in RequestedStatuses, a \in UserIds :
          update_booking_status(b, s, a)
    \/ \E b \in BookingIds, u \in UserIds : cancel_booking(b, u)
    \/ \E b \in RequestedBookingIds, s \in RequestedStatuses :
          admin_update_booking_status(b, s)
    \/ \E k \in CommandKinds \ {"Create"}, b \in BookingIds, u \in UserIds :
          NewCommand(k, b, u, "none", 0)
    \/ NewCommand("Create", 0, "cust", "svc1", 0)
    \/ DropCommand
    \/ /\ Len(bookings) < MaxBookings
       /\ CreateBookingCommand_execute
    \/ CancelBookingCommand_execute
    \/ AcceptBookingCommand_execute
    \/ RejectBookingCommand_execute
    \/ CompleteBookingCommand_execute
    \/ CreateBookingCommand_undo
    \/ CancelBookingCommand_undo
    \/ AcceptBookingCommand_undo
    \/ RejectBookingCommand_undo
    \/ CompleteBookingCommand_undo

Spec == Init /\ [][Next]_vars

(***************************************************************************)
(* Booking creation against a collection of earlier bookings: the two      *)
(* creation paths, and cancellation to free a slot.                        *)
(***************************************************************************)
NextConflict ==
    \/ \E s \in ServiceInputs, t \in Times :
          /\ Len(bookings) < MaxConflictBookings
          /\ create_booking("cust", s, t)
    \/ \E s \in ServiceInputs, t \in Times : NewCommand("Create", 0, "cust", s, t)
    \/ /\ Len(bookings) < MaxConflictBookings
       /\ CreateBookingCommand_execute
    \/ DropCommand
    \/ \E b \in ConflictBookingIds : cancel_booking(b, "cust")

SpecConflict == Init /\ [][NextConflict]_vars

(***************************************************************************)
(* Properties of the booking lifecycle.                                    *)
(***************************************************************************)
TerminalStatuses == {"rejected", "cancelled", "completed"}

\* the five transitions the specification names
ClaimedTransitions ==
    {<<"requested", "accepted">>, <<"requested", "rejected">>,
     <<"requested", "cancelled">>, <<"accepted", "completed">>,
     <<"accepted", "cancelled">>}

\* results that are a raised ValueError
ValueErrors == {"ValueError", "ValueError: Unauthorized",
                "ValueError: Booking time conflict"}

StatusChanged(b) == bookings'[b].status # bookings[b].status

\* C1: over every operation that writes a booking's status the status only
\* moves forward: a booking in rejected, cancelled or completed never changes
\* status again and an accepted booking never returns to requested.
C1_StatusOnlyMovesForward ==
    [][\A b \in 1..Len(bookings) :
          StatusChanged(b) =>
             /\ bookings[b].status \notin TerminalStatuses
             /\ ~(bookings[b].status = "accepted" /\ bookings'[b].status = "requested")
      ]_vars

\* the requirement of C2 on a step that asks to move booking b to status `to`
MovesAsClaimed(b, to) ==
    /\ \A o \in 1..Len(bookings) : o # b => bookings'[o] = bookings[o]
    /\ Len(bookings') = Len(bookings)
    /\ b <= Len(bookings) =>
          IF <<bookings[b].status, to>> \in ClaimedTransitions
          THEN bookings'[b] = bookings[b] \/ bookings'[b].status = to
          ELSE /\ last'.result \in ValueErrors
               /\ bookings' = bookings

\* C2: every status change made by update_booking_status or by the execute of
\* a Cancel/Accept/Reject/Complete command is one of the five named
\* transitions; for every other pair of current and requested status the
\* operation raises ValueError and leaves status and timestamps unchanged.
C2_OnlyNamedTransitions ==
    [][/\ \A b \in BookingIds, s \in RequestedStatuses, a \in UserIds :
             update_booking_status(b, s, a) => MovesAsClaimed(b, s)
       /\ CancelBookingCommand_execute => MovesAsClaimed(cmd.booking_id, "cancelled")
       /\ AcceptBookingCommand_execute => MovesAsClaimed(cmd.booking_id, "accepted")
       /\ RejectBookingCommand_execute => MovesAsClaimed(cmd.booking_id, "rejected")
       /\ CompleteBookingCommand_execute => MovesAsClaimed(cmd.booking_id, "completed")
      ]_vars

\* a Complete command was executed on a booking that is requested: it raised
\* ValueError and the booking is still requested
C2_Witness ==
    /\ cmd.kind = "Complete" /\ cmd.executed
    /\ cmd.booking.booking_id # 0 /\ cmd.booking.status = "requested"
    /\ last.result = "ValueError"
    /\ bookings[cmd.booking_id].status = "requested"
    /\ bookings[cmd.booking_id].timestamps = {"requested"}

(***************************************************************************)
(* Properties of booking creation.                                         *)
(***************************************************************************)
\* the new interval [t, t + duration) of an active service overlaps the
\* interval of a stored requested or accepted booking of the same business
Overlapping(service_id, t) ==
    /\ service_id \in DOMAIN services
    /\ services[service_id].is_active
    /\ \E i \in 1..Len(bookings) :
          /\ bookings[i].business_id = services[service_id].business_id
          /\ bookings[i].status \in {"requested", "accepted"}
          /\ bookings[i].booking_time < t + services[service_id].duration_minutes
          /\ bookings[i].booking_time + bookings[i].duration_minutes > t

\* C3: create_booking and CreateBookingCommand.execute raise
\* ValueError('Booking time conflict') and store no booking whenever the new
\* interval overlaps the interval of any stored requested or accepted booking
\* of the same business.
C3_EveryOverlapRejected ==
    [][\A s \in ServiceInputs, t \in Times :
          /\ Overlapping(s, t)
          /\ \/ create_booking("cust", s, t)
             \/ /\ cmd.service_id = s /\ cmd.booking_time = t
                /\ CreateBookingCommand_execute
          => /\ last'.result = "ValueError: Booking time conflict"
             /\ bookings' = bookings
      ]_vars

(***************************************************************************)
(* Properties of who may move a booking.                                   *)
(***************************************************************************)
OwnerOf(b) == businesses[bookings[b].business_id].owner_id

\* C4: AcceptBookingCommand.execute and RejectBookingCommand.execute change a
\* booking only when business_owner_id is the owner of the booking's
\* business; for any other user they raise the ownership ValueError whatever
\* the booking's status, the booking is unchanged and no observer is called.
C4_OnlyOwnerAcceptsOrRejects ==
    [][(AcceptBookingCommand_execute \/ RejectBookingCommand_execute)
          /\ cmd.booking_id <= Len(bookings)
          => IF cmd.user_id = OwnerOf(cmd.booking_id)
             THEN last'.result # "ValueError: Unauthorized"
             ELSE /\ last'.result = "ValueError: Unauthorized"
                  /\ bookings' = bookings
                  /\ last'.calls = <<>>
      ]_vars

\* an Accept command of a user who is not the owner was executed on a
\* requested booking: it raised the ownership error, the booking is as it was
C4_Witness ==
    /\ cmd.kind = "Accept" /\ cmd.executed
    /\ cmd.booking_id <= Len(bookings)
    /\ cmd.user_id # OwnerOf(cmd.booking_id)
    /\ last = Outcome("ValueError: Unauthorized", <<>>)
    /\ bookings[cmd.booking_id].status = "requested"
    /\ bookings[cmd.booking_id].timestamps = {"requested"}

\* the actors the comments of update_booking_status and cancel_booking name
MayMove(actor, b, to) ==
    IF to = "cancelled"
    THEN actor \in {bookings[b].customer_id, OwnerOf(b)}
    ELSE actor = OwnerOf(b)

\* C5: on every path that changes a booking's status a change to accepted,
\* rejected or completed succeeds only for the owner of the booking's
\* business and a change to cancelled only for the customer or that owner;
\* for any other actor the booking is unchanged.
C5_OnlyAuthorizedActors ==
    [][/\ \A b \in BookingIds, s \in RequestedStatuses, a \in UserIds :
             update_booking_status(b, s, a) /\ bookings' # bookings => MayMove(a, b, s)
       /\ \A b \in BookingIds, u \in UserIds :
             cancel_booking(b, u) /\ bookings' # bookings => MayMove(u, b, "cancelled")
       /\ CompleteBookingCommand_execute /\ bookings' # bookings
             => MayMove(cmd.user_id, cmd.booking_id, "completed")
       /\ CancelBookingCommand_execute /\ bookings' # bookings
             => MayMove(cmd.user_id, cmd.booking_id, "cancelled")
      ]_vars

(***************************************************************************)
(* The fan-out with observers attached and detached, one of them raising.  *)
(***************************************************************************)
NextNotify ==
    \/ \E o \in ObserverPool : attach(o)
    \/ \E o \in ObserverPool : detach(o)
    \/ /\ Len(bookings) < MaxBookings
       /\ create_booking("cust", "svc1", 0)
    \/ \E b \in BookingIds, s \in RequestedStatuses :
          update_booking_status(b, s, "owner1")
    \/ \E b \in BookingIds : NewCommand("Accept", b, "owner1", "none", 0)
    \/ AcceptBookingCommand_execute
    \/ DropCommand

SpecNotify == Init /\ [][NextNotify]_vars

\* C6: notify calls update once on every attached observer, in attachment
\* order, also when one of them raises, and returns normally: the operation
\* that stored a status and notified reports success and the status stands.
C6_EveryObserverCalled ==
    [][bookings' # bookings =>
          /\ last'.calls = observers
          /\ last'.result = "ok"
      ]_vars

\* an Accept command stored accepted and notified while a raising observer
\* was attached before two others: all were called and execute succeeded
C6_Witness ==
    /\ Len(observers) >= 3 /\ observers[1] = "FaultyObserver"
    /\ cmd.kind = "Accept" /\ cmd.executed /\ cmd.booking.status = "accepted"
    /\ bookings[cmd.booking_id].status = "accepted"
    /\ last = Outcome("ok", observers)

InitEnv ==
    /\ bookings = <<>>
    /\ businesses = SeedBusinesses
    /\ services = SeedServices
    /\ cmd = NoCommand
    /\ observers = DefaultObservers
    /\ last = Outcome("init", <<>>)
    /\ InitSingletons
    /\ env_ok \in BOOLEAN
    /\ users = SeedUsers
    /\ categories = {}
    /\ current_user = Anonymous
    /\ response = NoResponse
    /\ handler_runs = 0
    /\ InitQueue
    /\ session = NoSession
    /\ boot_id = 1
    /\ accounts = SeedAccounts

SpecSingleton == InitEnv /\ [][NextSingleton]_vars

SpecStore == Init /\ [][NextStore]_vars

SpecGuard == Init /\ [][NextGuard]_vars

SpecQueue == Init /\ [][NextQueue]_vars

SpecAuth == Init /\ [][NextAuth]_vars

(***************************************************************************)
(* C7: Config() and Config.get_instance(), and SingletonDB() and           *)
(* SingletonDB.get_instance(), hand every caller one and the same instance *)
(* of the class, whatever the number of calls and however the calling      *)
(* threads interleave.                                                     *)
(***************************************************************************)
C7_OneInstancePerClass ==
    /\ Cardinality(seen.Config) <= 1
    /\ Cardinality(seen.SingletonDB) <= 1
    /\ None \notin seen.Config \cup seen.SingletonDB

\* both classes have handed out their instance, and every thread is being
\* handed the SingletonDB instance again at the same time
C7_Witness ==
    /\ seen.Config = {1}
    /\ seen.SingletonDB = {1}
    /\ \A t \in Threads : At(t, "ReturnDB") /\ thr[t].db = 1

KeepsBusinessesServicesBookings ==
    /\ DOMAIN businesses \subseteq DOMAIN businesses'
    /\ DOMAIN services \subseteq DOMAIN services'
    /\ Len(bookings') >= Len(bookings)
    /\ \A b \in DOMAIN businesses :
          [businesses'[b] EXCEPT !.is_active = businesses[b].is_active] = businesses[b]
    /\ \A s \in DOMAIN services :
          [services'[s] EXCEPT !.is_active = services[s].is_active] = services[s]

DeactivationOnlyFlips ==
    /\ \A b \in BusinessInputs :
          deactivate_business(b) \/ toggle_business_status(b) =>
             /\ DOMAIN businesses' = DOMAIN businesses
             /\ \A x \in DOMAIN businesses \ {b} : businesses'[x] = businesses[x]
             /\ UNCHANGED <<bookings, users, services, categories>>
    /\ \A s \in DOMAIN services \cup {"nosvc"} :
          deactivate_service(s) =>
             /\ DOMAIN services' = DOMAIN services
             /\ \A x \in DOMAIN services \ {s} : services'[x] = services[x]
             /\ UNCHANGED <<bookings, users, businesses, categories>>
    /\ \A u \in UserInputs :
          toggle_user_status(u) => UNCHANGED <<bookings, recordVars>>

SpecQueueLive == SpecQueue /\ WF_vars(loop.active /\ NextQueue)

(***************************************************************************)
(* Properties of the command queue.                                        *)
(***************************************************************************)
\* the order numbers of the items in a sequence of items or entries
Ids(items) == {items[i].id : i \in 1..Len(items)}

\* every queued command is in exactly one place, once: waiting, being
\* executed, or recorded; a waiting item has failed retries < max_retries
\* times out of as many executions; a 'failed' entry stands for exactly
\* max_retries executions, a 'success' entry for at most as many
RetryBookkeeping ==
    /\ Cardinality(Ids(queue)) = Len(queue)
    /\ Cardinality(Ids(history)) = Len(history)
    /\ Ids(queue) \cap Ids(history) = {}
    /\ running.item.id \notin Ids(queue) \cup Ids(history)
    /\ \A i \in 1..Len(queue) :
          queue[i].retries < max_retries /\ queue[i].attempts = queue[i].retries
    /\ \A i \in 1..Len(history) :
          IF history[i].status = "failed"
          THEN history[i].attempts = max_retries
          ELSE history[i].status = "success" /\ history[i].attempts <= max_retries

\* C11: a command that fails on every attempt is executed exactly max_retries
\* (3) times: after each failure short of the third it is put back at the end
\* of the queue with retries incremented and the history is untouched, after
\* the third it leaves the queue and gets one 'failed' history entry; a
\* command that succeeds gets one 'success' entry and is not queued again;
\* every failure reaches the caller of execute_next.
C11_FailingCommandRunsThreeTimes ==
    [][/\ RetryBookkeeping'
       /\ execute_next_return =>
             LET item == running.item
             IN  IF last.result = "ok"
                 THEN /\ queue' = queue
                      /\ Len(history') = Len(history) + 1
                      /\ history'[Len(history')].status = "success"
                      /\ history'[Len(history')].id = item.id
                 ELSE /\ last' = last
                      /\ IF item.retries + 1 < max_retries
                         THEN /\ history' = history
                              /\ Len(queue') = Len(queue) + 1
                              /\ queue'[Len(queue')].id = item.id
                              /\ queue'[Len(queue')].retries = item.retries + 1
                         ELSE /\ queue' = queue
                              /\ Len(history') = Len(history) + 1
                              /\ history'[Len(history')].status = "failed"
                              /\ history'[Len(history')].id = item.id]_vars

\* one command has failed three times and is recorded as failed, another has
\* succeeded and is recorded as success
C11_Witness ==
    /\ \E i \in 1..Len(history) :
          history[i].status = "failed" /\ history[i].attempts = max_retries
    /\ \E i \in 1..Len(history) : history[i].status = "success"
    /\ queue = <<>>

\* C12: undo_last_command calls undo only on the command of the most recent
\* history entry and only when that entry has status 'success'; when the
\* history is empty or its most recent entry is 'failed' it raises
\* ValueError('No command to undo') and no booking changes.
C12_UndoOnlyLastSuccess ==
    [][/\ undo_last_command =>
             IF history # <<>> /\ history[Len(history)].status = "success"
             THEN /\ running'.call = "undo_last_command"
                  /\ cmd' = history[Len(history)].command
                  /\ bookings' = bookings
             ELSE /\ last'.result = "ValueError: No command to undo"
                  /\ bookings' = bookings
                  /\ running' = Idle
       /\ (Undoing /\ (AcceptBookingCommand_undo \/ CancelBookingCommand_undo
                          \/ CompleteBookingCommand_undo)) =>
             /\ history # <<>>
             /\ history[Len(history)].status = "success"
             /\ cmd = history[Len(history)].command]_vars

\* the Accept command last recorded as success has been undone: its booking
\* is requested again
C12_Witness ==
    /\ running.call = "undo_last_command"
    /\ last.result = "ok"
    /\ cmd.kind = "Accept"
    /\ history[Len(history)].status = "success"
    /\ bookings[1].status = "requested"

\* the history entries appended since the running execute_all began
AddedEntries == SubSeq(history, loop.history0 + 1, Len(history))

RECURSIVE CountStatus(_, _)
CountStatus(entries, status) ==
    IF entries = <<>> THEN 0
    ELSE (IF Head(entries).status = status THEN 1 ELSE 0)
         + CountStatus(Tail(entries), status)

\* the failed executions that a sequence of history entries stands for
RECURSIVE FailedAttempts(_)
FailedAttempts(entries) ==
    IF entries = <<>> THEN 0
    ELSE (IF Head(entries).status = "failed" THEN Head(entries).attempts
          ELSE Head(entries).attempts - 1)
         + FailedAttempts(Tail(entries))

\* no command waiting when execute_all began had been executed before
FreshAtStart ==
    loop.attempts0 = SumAttempts(SubSeq(history, 1, loop.history0))

\* C19: execute_all terminates whatever mix of succeeding and failing
\* commands is queued, and when it returns the queue is empty, results has
\* one entry per successful execution made by the call and errors one per
\* failed execution made by the call: max_retries (3) for each command that
\* entered the call unexecuted and failed every time.
C19_ExecuteAllTerminates ==
    /\ loop.active ~> ~loop.active
    /\ [][execute_all_return =>
            /\ queue = <<>> /\ queue' = <<>>
            /\ Len(loop.results) = CountStatus(AddedEntries, "success")
            /\ Len(loop.results) + Len(loop.errors)
                 = TotalAttempts - loop.attempts0
            /\ FreshAtStart =>
                 /\ Len(loop.errors) = FailedAttempts(AddedEntries)
                 /\ Len(loop.errors)
                      >= max_retries * CountStatus(AddedEntries, "failed")]_vars

\* execute_all has returned after one command failed three times and another
\* succeeded
C19_Witness ==
    /\ ~loop.active
    /\ Len(loop.results) = 1
    /\ Len(loop.errors) = max_retries
    /\ Len(history) = 2
    /\ queue = <<>>

(***************************************************************************)
(* Properties of the admin update-status route.                            *)
(***************************************************************************)
\* C18: the admin update-status route changes a booking only when the
\* requested status is completed or cancelled and the booking id is known,
\* and then only that booking; for any other requested status and for an
\* unknown booking id no booking's status or timestamps change.
C18_AdminSetsOnlyCompletedOrCancelled ==
    [][bookings' # bookings =>
         \A b \in RequestedBookingIds, s \in RequestedStatuses :
            admin_update_booking_status(b, s) =>
               /\ s \in {"completed", "cancelled"}
               /\ b \in 1..Len(bookings)
               /\ \A o \in 1..Len(bookings) : o # b => bookings'[o] = bookings[o]
               /\ bookings'[b].status = s]_vars

\* the admin route has completed a booking that was never accepted
C18_Witness ==
    /\ bookings # <<>>
    /\ bookings[1].status = "completed"
    /\ bookings[1].timestamps = {"requested", "completed"}
    /\ last.result = "ok"
    /\ cmd = NoCommand

(***************************************************************************)
(* Properties of category deletion.                                        *)
(***************************************************************************)
\* C16: a category leaves the categories collection only when no Business
\* names it; the built-in names stay valid whatever is stored; and no step
\* turns the category of a stored Business from valid to invalid, so a
\* Business created with a valid category names a valid one ever after.
C16_UsedCategoriesStayValid ==
    [][/\ \A c \in categories \ categories' :
            \A b \in DOMAIN businesses : businesses[b].category # c
       /\ \A c \in BuiltInCategories :
            valid_in(categories, c) /\ valid_in(categories', c)
       /\ \A b \in DOMAIN businesses :
            valid_in(categories, businesses[b].category) =>
               /\ b \in DOMAIN businesses'
               /\ valid_in(categories', businesses'[b].category)]_vars

\* deleting a DB-backed category has just been refused because a business
\* stored under that name uses it
C16_Witness ==
    /\ last = Flash("Cannot delete")
    /\ "pets" \in categories
    /\ \E b \in DOMAIN businesses : businesses[b].category = "pets"

(***************************************************************************)
(* Properties of registration, login and the session hook.                 *)
(***************************************************************************)
\* the outcomes of a verify_register POST
VerifyOutcomes ==
    {"No verification pending.", "Verification code incorrect.",
     "Verification successful!"}

C14_CredentialCheckOnlyAfterCaptcha ==
    [][\A i \in Identifiers, p \in Passwords, r \in SubmittedLoginAs,
          a \in SubmittedAnswers :
          login(i, p, r, a) =>
             IF /\ "captcha_answer" \in DOMAIN fresh_session
                /\ a # NoValue
                /\ a = fresh_session["captcha_answer"]
             THEN TRUE
             ELSE /\ last'.result = "Captcha incorrect. Try again."
                  /\ get(session', "_user_id") = get(fresh_session, "_user_id")]_vars

\* C15: login_user is called only for a user whose role is the login_as the
\* form carried ('customer' when it carried none).
C15_LoggedInOnlyWithMatchingRole ==
    last.result = "Login successful!" =>
       \E u \in 1..Len(accounts) :
          /\ accounts[u].email = session["_user_id"]
          /\ accounts[u].role = last.calls[1]

\* C17: a request that only passes the hook leaves the session stamped with
\* the server's boot id: a session of another boot is emptied of every other
\* key, a session without a stamp keeps its keys and gains the stamp, a
\* session of this boot is left as it is.
C17_SessionCarriesCurrentBootId ==
    [][(last'.result = "page" /\ visit) =>
         /\ "APP_BOOT_ID" \in DOMAIN session'
         /\ session'["APP_BOOT_ID"] = boot_id
         /\ IF "APP_BOOT_ID" \notin DOMAIN session
            THEN pop(session', {"APP_BOOT_ID"}) = session
            ELSE IF session["APP_BOOT_ID"] = boot_id
            THEN session' = session
            ELSE DOMAIN session' = {"APP_BOOT_ID"}]_vars

\* after a restart the hook has cleared a session of the earlier boot
C17_Witness ==
    /\ last = Outcome("page", <<"session.clear", "stamp">>)
    /\ boot_id = 2
    /\ session = put(NoSession, "APP_BOOT_ID", 2)

====
